---- MODULE Spec2Model ----
(***************************************************************************)
(* Formula nodes of pre_system/formula.py: construction, base-year         *)
(* assignment and the recursive evaluate of every node kind, over pandas   *)
(* tables modelled as period-indexed columns of exact IEEE-like numbers.   *)
(*                                                                         *)
(* Numbers are exact rationals <<n, d>> (d > 0, lowest terms) extended     *)
(* with the three non-finite doubles: NaN = <<0,0>>, +inf = <<1,0>>,       *)
(* -inf = <<-1,0>>.  Rounding of doubles is not modelled.  A table's       *)
(* index holds each period once.                                           *)
(***************************************************************************)
EXTENDS Integers, Sequences, FiniteSets, TLC

VARIABLES nodes, tabs, last

vars == <<nodes, tabs, last>>

-----------------------------------------------------------------------------
(* numpy float arithmetic *)

Abs(x) == IF x < 0 THEN -x ELSE x

Sign(x) == IF x < 0 THEN -1 ELSE IF x = 0 THEN 0 ELSE 1

RECURSIVE GCD(_, _)
GCD(a, b) == IF b = 0 THEN a ELSE GCD(b, a % b)

Rat(n, d) ==
    IF d = 0 THEN <<Sign(n), 0>>
    ELSE LET g == GCD(Abs(n), Abs(d))
             s == Sign(d)
         IN  <<(s * n) \div g, (s * d) \div g>>

Num(k) == <<k, 1>>

NaN == <<0, 0>>

IsNaN(v) == v = NaN

IsFinite(v) == v[2] # 0

fadd(a, b) ==
    IF a[2] = 0 /\ b[2] = 0
    THEN (IF a = b THEN a ELSE NaN)
    ELSE Rat(a[1] * b[2] + b[1] * a[2], a[2] * b[2])

fmul(a, b) == Rat(a[1] * b[1], a[2] * b[2])

fneg(a) == <<-a[1], a[2]>>

fsub(a, b) == fadd(a, fneg(b))

fdiv(a, b) ==
    IF b[2] = 0
    THEN (IF IsNaN(b) \/ a[2] = 0 THEN NaN ELSE Num(0))
    ELSE IF b[1] = 0 THEN Rat(a[1], 0)
    ELSE Rat(a[1] * b[2] * Sign(b[1]), a[2] * Abs(b[1]))

-----------------------------------------------------------------------------
(* pandas Series: a function from periods <<year, sub>> to numbers *)

Year(p) == p[1]

InYear(s, by) == {p \in DOMAIN s : Year(p) = by}

\* s1 op s2 of two Series: aligned on the union of the two indexes, NaN
\* where either side has no value
SeriesAdd(s1, s2) ==
    [p \in (DOMAIN s1) \cup (DOMAIN s2) |->
        IF p \in DOMAIN s1 /\ p \in DOMAIN s2 THEN fadd(s1[p], s2[p]) ELSE NaN]

SeriesMul(s1, s2) ==
    [p \in (DOMAIN s1) \cup (DOMAIN s2) |->
        IF p \in DOMAIN s1 /\ p \in DOMAIN s2 THEN fmul(s1[p], s2[p]) ELSE NaN]

SeriesDiv(s1, s2) ==
    [p \in (DOMAIN s1) \cup (DOMAIN s2) |->
        IF p \in DOMAIN s1 /\ p \in DOMAIN s2 THEN fdiv(s1[p], s2[p]) ELSE NaN]

\* Series op scalar
ScalarAdd(s, v) == [p \in DOMAIN s |-> fadd(s[p], v)]

ScalarMul(s, v) == [p \in DOMAIN s |-> fmul(s[p], v)]

ScalarDiv(s, v) == [p \in DOMAIN s |-> fdiv(s[p], v)]

\* scalar / Series is not used by the source

RECURSIVE SumOver(_, _)
SumOver(s, P) ==
    IF P = {} THEN Num(0)
    ELSE LET p == CHOOSE q \in P : TRUE
         IN  fadd(s[p], SumOver(s, P \ {p}))

\* s[s.index.year == by].sum(): NaN entries are skipped, nothing left sums to 0
SumYear(s, by) == SumOver(s, {p \in InYear(s, by) : ~IsNaN(s[p])})

\* s[s.index.year == by].mean(): NaN entries are skipped, nothing left gives NaN
MeanYear(s, by) ==
    LET P == {p \in InYear(s, by) : ~IsNaN(s[p])}
    IN  IF P = {} THEN NaN ELSE fdiv(SumOver(s, P), Num(Cardinality(P)))

-----------------------------------------------------------------------------
(* pandas DataFrame arguments.  type: what isinstance sees; index: the     *)
(* class of df.index; freq: df.index.freq; periods: the index; cols: the   *)
(* column names; nonnum: the columns whose dtype is not numeric; data: the *)
(* cell values.  NoneDf is the argument None.                              *)

NoneDf ==
    [type |-> "NoneType", index |-> "", freq |-> "", periods |-> {},
     cols |-> {}, nonnum |-> {}, data |-> <<>>]

IsNone(df) == df.type = "NoneType"

Column(df, c) == df.data[c]

-----------------------------------------------------------------------------
(* results of a call: a Series, a Python scalar, None, or a raised exception *)

RSeries(s) == [tag |-> "series", val |-> s]

RScalar(v) == [tag |-> "scalar", val |-> v]

RNone == [tag |-> "none", val |-> <<>>]

Raise(exc, msg) == [tag |-> "error", val |-> <<exc, msg>>]

IsError(r) == r.tag = "error"

Exc(r) == r.val[1]

-----------------------------------------------------------------------------
(* Formula: the shared validation *)

None == <<>>

Some(x) == <<x>>

\* Python truth of an optional list argument: None and [] are both false
Truthy(x) == x # None /\ x[1] # <<>>

\* mutant: the numeric test ahead of the base-year test
check_df_numeric_first(df, baseyear, frequency) ==
    IF df.type # "DataFrame"
    THEN Raise("TypeError", "must be a Pandas.DataFrame")
    ELSE IF df.index # "PeriodIndex"
    THEN Raise("AttributeError", "index must be Pandas.PeriodIndex")
    ELSE IF frequency # "" /\ df.freq # frequency
    THEN Raise("AttributeError", "must have frequency")
    ELSE IF df.nonnum # {}
    THEN Raise("TypeError", "All columns must be numeric")
    ELSE IF {p \in df.periods : Year(p) = baseyear} = {}
    THEN Raise("IndexError", "baseyear is out of range")
    ELSE RNone

\* Formula._check_df: the first violated check raises; frequency "" is the
\* omitted (falsy) argument
check_df(df, baseyear, frequency) ==
    IF df.type # "DataFrame"
    THEN Raise("TypeError", "must be a Pandas.DataFrame")
    ELSE IF df.index # "PeriodIndex"
    THEN Raise("AttributeError", "index must be Pandas.PeriodIndex")
    ELSE IF frequency # "" /\ df.freq # frequency
    THEN Raise("AttributeError", "must have frequency")
    ELSE IF {p \in df.periods : Year(p) = baseyear} = {}
    THEN Raise("IndexError", "baseyear is out of range")
    ELSE IF df.nonnum # {}
    THEN Raise("TypeError", "All columns must be numeric")
    ELSE RNone

\* mutant: the annual table's type is tested ahead of the base year
Formula_evaluate_table_first(self, T) ==
    IF T.annual.type # "DataFrame"
    THEN Raise("TypeError", "must be a Pandas.DataFrame")
    ELSE IF self.baseyear = None
    THEN Raise("ValueError", "baseyear is None")
    ELSE LET by == self.baseyear[1]
             r1 == check_df(T.annual, by, "a")
             r2 == check_df(T.indicator, by, "")
             r3 == IF IsNone(T.weight) THEN RNone
                   ELSE check_df(T.weight, by, "a")
             r4 == IF IsNone(T.correction) THEN RNone
                   ELSE check_df(T.correction, by, T.indicator.freq)
         IN  IF IsError(r1) THEN r1
             ELSE IF IsError(r2) THEN r2
             ELSE IF IsError(r3) THEN r3
             ELSE r4

\* Formula.evaluate: the base-year check, then annual, indicator, weight and
\* correction tables in that order; returns None
Formula_evaluate(self, T) ==
    IF self.baseyear = None
    THEN Raise("ValueError", "baseyear is None")
    ELSE LET by == self.baseyear[1]
             r1 == check_df(T.annual, by, "a")
             r2 == check_df(T.indicator, by, "")
             r3 == IF IsNone(T.weight) THEN RNone
                   ELSE check_df(T.weight, by, "a")
             r4 == IF IsNone(T.correction) THEN RNone
                   ELSE check_df(T.correction, by, T.indicator.freq)
         IN  IF IsError(r1) THEN r1
             ELSE IF IsError(r2) THEN r2
             ELSE IF IsError(r3) THEN r3
             ELSE r4

-----------------------------------------------------------------------------
(* the combination of indicator columns shared by Indicator, FDeflate and  *)
(* FInflate (the source repeats the code in each evaluate)                 *)

RECURSIVE SumTo(_, _)
SumTo(f, n) == IF n = 0 THEN Num(0) ELSE fadd(SumTo(f, n - 1), f[n])

AllIn(names, cols) == \A i \in 1..Len(names) : names[i] \in cols

\* the row of df for the base year (validation has found one)
BaseRow(df, by) == CHOOSE p \in df.periods : Year(p) = by

\* mutant: the weights of the table's first row, not of the base-year row
weighted_dot_first_row(self, T) ==
    LET row == CHOOSE p \in T.weight.periods :
                   \A q \in T.weight.periods : Year(p) <= Year(q)
    IN  [p \in T.indicator.periods |->
            SumTo([i \in 1..Len(self.indicator_names) |->
                      fmul(Column(T.indicator, self.indicator_names[i])[p],
                           Column(T.weight, self.weight_names[1][i])[row])],
                  Len(self.indicator_names))]

\* indicator_matrix.dot(weight_vector.transpose())[:, 0]
weighted_dot(self, T) ==
    LET by == self.baseyear[1]
        row == BaseRow(T.weight, by)
    IN  [p \in T.indicator.periods |->
            SumTo([i \in 1..Len(self.indicator_names) |->
                      fmul(Column(T.indicator, self.indicator_names[i])[p],
                           Column(T.weight, self.weight_names[1][i])[row])],
                  Len(self.indicator_names))]

\* indicator_df[names].sum(axis=1, skipna=False)
plain_sum(self, T) ==
    [p \in T.indicator.periods |->
        SumTo([i \in 1..Len(self.indicator_names) |->
                  Column(T.indicator, self.indicator_names[i])[p]],
              Len(self.indicator_names))]

aggregated_indicators(self, T) ==
    IF Truthy(self.weight_names) THEN weighted_dot(self, T) ELSE plain_sum(self, T)

\* the error of the weight checks, RNone when they pass
weight_check(self, T) ==
    IF ~Truthy(self.weight_names) THEN RNone
    ELSE IF IsNone(T.weight) THEN Raise("NameError", "expects weight_df")
    ELSE IF ~AllIn(self.weight_names[1], T.weight.cols)
    THEN Raise("NameError", "not in weight_df")
    ELSE RNone

\* mutant: no test of the column name, the table lookup raises KeyError
correction_check_lookup(self, T) ==
    IF self.correction_name = "" THEN RNone
    ELSE IF IsNone(T.correction) THEN Raise("NameError", "expects correction_df")
    ELSE IF self.correction_name \notin T.correction.cols
    THEN Raise("KeyError", "correction_name")
    ELSE RNone

\* the error of the correction checks, RNone when they pass
correction_check(self, T) ==
    IF self.correction_name = "" THEN RNone
    ELSE IF IsNone(T.correction) THEN Raise("NameError", "expects correction_df")
    ELSE IF self.correction_name \notin T.correction.cols
    THEN Raise("NameError", "not in correction_df")
    ELSE RNone

-----------------------------------------------------------------------------
(* Indicator.evaluate.  Every evaluate returns [res, log]: the result and  *)
(* the events of the call in order, <<"call", n>> when evaluate is entered *)
(* on node n and <<"checked", n>> when its shared validation has passed.   *)

Out(res, log) == [res |-> res, log |-> log]

\* mutant: the base-year sum whatever the mode
Indicator_aggregate_sum_only(self, corrected) ==
    SumYear(corrected, self.baseyear[1])

Indicator_aggregate(self, corrected) ==
    IF self.aggregation = "sum"
    THEN SumYear(corrected, self.baseyear[1])
    ELSE MeanYear(corrected, self.baseyear[1])

Indicator_scale(self, T, corrected) ==
    LET by == self.baseyear[1]
        A  == Column(T.annual, self.annual_name)[BaseRow(T.annual, by)]
    IN  ScalarMul(ScalarDiv(corrected, Indicator_aggregate(self, corrected)), A)

Indicator_evaluate(ns, n, T) ==
    LET self == ns[n]
        chk  == Formula_evaluate(self, T)
        log0 == << <<"call", n>> >>
        log1 == << <<"call", n>>, <<"checked", n>> >>
    IN  IF IsError(chk) THEN Out(chk, log0)
        ELSE IF self.annual_name \notin T.annual.cols
        THEN Out(Raise("NameError", "not in annual_df"), log1)
        ELSE IF ~AllIn(self.indicator_names, T.indicator.cols)
        THEN Out(Raise("NameError", "not in indicator_df"), log1)
        ELSE IF IsError(weight_check(self, T))
        THEN Out(weight_check(self, T), log1)
        ELSE IF IsError(correction_check(self, T))
        THEN Out(correction_check(self, T), log1)
        ELSE LET weighted  == aggregated_indicators(self, T)
                 corrected ==
                     IF self.correction_name # ""
                     THEN SeriesMul(weighted,
                                    Column(T.correction, self.correction_name))
                     ELSE weighted
             IN  Out(RSeries(Indicator_scale(self, T, corrected)), log1)

-----------------------------------------------------------------------------
(* nodes: the Formula objects built so far, in construction order; a node  *)
(* is referred to by its position.  baseyear is None or Some(year);        *)
(* weight_names is the constructor's argument, None or Some(list);         *)
(* correction_name "" stands for None; formulae are the children.          *)

\* str.lower() on the names and modes the model passes
Lower(s) ==
    CASE s = "SUM" -> "sum"
      [] s = "AVG" -> "avg"
      [] s = "X"   -> "x"
      [] OTHER     -> s

Node(kind, name) ==
    [tag |-> "node", kind |-> kind, name |-> Lower(name), baseyear |-> None,
     annual_name |-> "", indicator_names |-> <<>>, weight_names |-> None,
     correction_name |-> "", aggregation |-> "", formulae |-> <<>>,
     coefficients |-> <<>>, calls_on |-> <<>>]

\* Formula.__init__
Formula_init(name) == Node("Formula", name)

\* Indicator.__init__; the aggregation test of the source is the chained
\* comparison (x in ['sum', 'avg']) and (['sum', 'avg'] is False): never true
Indicator_init(name, annual_name, indicator_names, weight_names, correction_name, aggregation) ==
    IF Truthy(weight_names) /\ Len(weight_names[1]) # Len(indicator_names)
    THEN Raise("IndexError", "weight_names must have same length")
    ELSE IF (Lower(aggregation) \in {"sum", "avg"}) /\ FALSE
    THEN Raise("NameError", "aggregation must be sum or avg")
    ELSE [Node("Indicator", name) EXCEPT
             !.annual_name = annual_name,
             !.indicator_names = indicator_names,
             !.weight_names = weight_names,
             !.correction_name = correction_name,
             !.aggregation = Lower(aggregation)]

\* isinstance(f, Formula): an argument is a node, or 0 for an object that
\* is no Formula (a str)
IsFormula(ns, f) == f \in 1..Len(ns)

\* mutant: the map of a new node holds the node itself
Dict_self(ns, ids) == [nm \in {"self"} |-> Len(ns) + 1]

\* {x.name: x for x in formulae}: of two children with one name the later stays
Dict(ns, ids) ==
    IF ids = <<>> THEN <<>>
    ELSE [nm \in {ns[ids[i]].name : i \in 1..Len(ids)} |->
             ids[CHOOSE i \in 1..Len(ids) :
                    /\ ns[ids[i]].name = nm
                    /\ \A j \in 1..Len(ids) : ns[ids[j]].name = nm => j <= i]]

\* FDeflate.__init__ and FInflate.__init__
Deflate_init(ns, kind, name, formula, indicator_names, weight_names, correction_name) ==
    IF ~IsFormula(ns, formula)
    THEN Raise("TypeError", "formula must be of type Formula")
    ELSE IF Truthy(weight_names) /\ Len(weight_names[1]) # Len(indicator_names)
    THEN Raise("IndexError", "weight_names must have same length")
    ELSE [Node(kind, name) EXCEPT
             !.formulae = <<formula>>,
             !.indicator_names = indicator_names,
             !.weight_names = weight_names,
             !.correction_name = correction_name,
             !.calls_on = Dict(ns, <<formula>>)]

\* FSum.__init__
FSum_init(ns, name, formulae) ==
    IF \E i \in 1..Len(formulae) : ~IsFormula(ns, formulae[i])
    THEN Raise("TypeError", "*formulae must be of type Formula")
    ELSE [Node("FSum", name) EXCEPT
             !.formulae = formulae, !.calls_on = Dict(ns, formulae)]

\* FSumProd.__init__: the two lists are not compared
FSumProd_init(ns, name, formulae, coefficients) ==
    IF \E i \in 1..Len(formulae) : ~IsFormula(ns, formulae[i])
    THEN Raise("TypeError", "*formulae must be of type Formula")
    ELSE [Node("FSumProd", name) EXCEPT
             !.formulae = formulae, !.coefficients = coefficients,
             !.calls_on = Dict(ns, formulae)]

\* FMult.__init__ and FDiv.__init__: the test of the source is
\* isinstance(formula1, Formula) and (isinstance(formula1, Formula) is False),
\* never true; an argument that is no Formula fails at its .name
Mult_init(ns, kind, name, formula1, formula2) ==
    IF IsFormula(ns, formula1) /\ ~IsFormula(ns, formula1)
    THEN Raise("TypeError", "formula1 and formula2 must be of type Formula")
    ELSE IF ~IsFormula(ns, formula1) \/ ~IsFormula(ns, formula2)
    THEN Raise("AttributeError", "no attribute name")
    ELSE [Node(kind, name) EXCEPT
             !.formulae = <<formula1, formula2>>,
             !.calls_on = Dict(ns, <<formula1, formula2>>)]

\* MultCorr.__init__ and AddCorr.__init__: formula.name is read before the
\* isinstance test; the node takes the child's name and the child's calls_on
Corr_init(ns, kind, formula, correction_name) ==
    IF ~IsFormula(ns, formula)
    THEN Raise("AttributeError", "no attribute name")
    ELSE [Node(kind, ns[formula].name) EXCEPT
             !.formulae = <<formula>>,
             !.correction_name = correction_name,
             !.calls_on = ns[formula].calls_on]

-----------------------------------------------------------------------------
(* the evaluate of the nodes that wrap other nodes.  A child's evaluate    *)
(* may return a Series, the Python number that sum() of no terms is, or    *)
(* None; an exception it raises is not caught anywhere.                    *)

RECURSIVE evaluate(_, _, _)

CallLog(n) == << <<"call", n>> >>

CheckedLog(n) == << <<"call", n>>, <<"checked", n>> >>

\* arithmetic of Python values: Series with Series align, a number broadcasts
RAdd(a, b) ==
    IF a.tag = "scalar" /\ b.tag = "scalar" THEN RScalar(fadd(a.val, b.val))
    ELSE IF a.tag = "scalar" THEN RSeries(ScalarAdd(b.val, a.val))
    ELSE IF b.tag = "scalar" THEN RSeries(ScalarAdd(a.val, b.val))
    ELSE RSeries(SeriesAdd(a.val, b.val))

RMul(a, b) ==
    IF a.tag = "scalar" /\ b.tag = "scalar" THEN RScalar(fmul(a.val, b.val))
    ELSE IF a.tag = "scalar" THEN RSeries(ScalarMul(b.val, a.val))
    ELSE IF b.tag = "scalar" THEN RSeries(ScalarMul(a.val, b.val))
    ELSE RSeries(SeriesMul(a.val, b.val))

\* mutant: re-anchored to the child's base-year mean
reanchor_mean(evaluated_formula, formula_corrected, by) ==
    ScalarMul(ScalarDiv(formula_corrected, SumYear(formula_corrected, by)),
              MeanYear(evaluated_formula, by))

\* total * corrected / corrected's base-year sum: the re-anchoring that ends
\* FDeflate, FInflate and MultCorr
reanchor(evaluated_formula, formula_corrected, by) ==
    ScalarMul(ScalarDiv(formula_corrected, SumYear(formula_corrected, by)),
              SumYear(evaluated_formula, by))

\* FDeflate.evaluate (deflate TRUE) and FInflate.evaluate (deflate FALSE)
Deflate_evaluate(ns, n, T, deflate) ==
    LET self == ns[n]
        chk  == Formula_evaluate(self, T)
    IN  IF IsError(chk) THEN Out(chk, CallLog(n))
        ELSE IF ~AllIn(self.indicator_names, T.indicator.cols)
        THEN Out(Raise("NameError", "not in indicator_df"), CheckedLog(n))
        ELSE IF IsError(weight_check(self, T))
        THEN Out(weight_check(self, T), CheckedLog(n))
        ELSE
        LET agg   == aggregated_indicators(self, T)
            child == evaluate(ns, self.formulae[1], T)
            log   == CheckedLog(n) \o child.log
            ev    == child.res
        IN  IF IsError(ev) THEN Out(ev, log)
            ELSE IF deflate /\ ev.tag # "series"
            THEN Out(Raise("AttributeError", "no attribute div"), log)
            ELSE IF ~deflate /\ ev.tag = "none"
            THEN Out(Raise("TypeError", "unsupported operand None"), log)
            ELSE IF IsError(correction_check(self, T))
            THEN Out(correction_check(self, T), log)
            ELSE IF ev.tag # "series"
            THEN Out(Raise("AttributeError", "no attribute index"), log)
            ELSE
            LET formula_divided ==
                    IF deflate THEN SeriesDiv(ev.val, agg) ELSE SeriesMul(ev.val, agg)
                formula_corrected ==
                    IF self.correction_name # ""
                    THEN SeriesMul(formula_divided,
                                   Column(T.correction, self.correction_name))
                    ELSE formula_divided
            IN  Out(RSeries(reanchor(ev.val, formula_corrected, self.baseyear[1])), log)

\* correction_df[self._correction_name]
correction_column(self, T) ==
    IF IsNone(T.correction)
    THEN Raise("TypeError", "NoneType is not subscriptable")
    ELSE IF self.correction_name \notin T.correction.cols
    THEN Raise("KeyError", "correction_name")
    ELSE RSeries(Column(T.correction, self.correction_name))

MultCorr_evaluate(ns, n, T) ==
    LET self == ns[n]
        chk  == Formula_evaluate(self, T)
    IN  IF IsError(chk) THEN Out(chk, CallLog(n))
        ELSE
        LET child == evaluate(ns, self.formulae[1], T)
            log   == CheckedLog(n) \o child.log
            ev    == child.res
            col   == correction_column(self, T)
        IN  IF IsError(ev) THEN Out(ev, log)
            ELSE IF IsError(col) THEN Out(col, log)
            ELSE IF ev.tag = "none"
            THEN Out(Raise("TypeError", "unsupported operand None"), log)
            ELSE IF ev.tag # "series"
            THEN Out(Raise("AttributeError", "no attribute index"), log)
            ELSE Out(RSeries(reanchor(ev.val, SeriesMul(ev.val, col.val),
                                      self.baseyear[1])), log)

\* mutant: the base-year sum of the correction column in place of its mean
AddCorr_level_sum(col, by) == SumYear(col, by)

\* correction_df[correction_df.index.year == baseyear][name].mean()
AddCorr_level(col, by) == MeanYear(col, by)

AddCorr_evaluate(ns, n, T) ==
    LET self == ns[n]
        chk  == Formula_evaluate(self, T)
        col  == correction_column(self, T)
    IN  IF IsError(chk) THEN Out(chk, CallLog(n))
        ELSE IF IsError(col) THEN Out(col, CheckedLog(n))
        ELSE
        LET child == evaluate(ns, self.formulae[1], T)
            log   == CheckedLog(n) \o child.log
            ev    == child.res
        IN  IF IsError(ev) THEN Out(ev, log)
            ELSE IF ev.tag = "none"
            THEN Out(Raise("TypeError", "unsupported operand None"), log)
            ELSE Out(RSeries(ScalarAdd(RAdd(col, ev).val,
                                       fneg(AddCorr_level(col.val, self.baseyear[1])))),
                     log)

\* the logs of the first k of the child evaluations R, in order
RECURSIVE Logs(_, _)
Logs(R, k) == IF k = 0 THEN <<>> ELSE Logs(R, k - 1) \o R[k].log

\* mutant: the undefined result is handed on, nothing is raised
does_not_evaluate_none(msg) == RNone

\* raise ValueError(...) of a combinator whose child returned None
does_not_evaluate(msg) == Raise("ValueError", msg)

\* mutant: the last child whose evaluate raised or returned None
FirstUndefined_last(R) ==
    LET bad == {i \in DOMAIN R : R[i].res.tag \in {"error", "none"}}
    IN  IF bad = {} THEN 0 ELSE CHOOSE i \in bad : \A j \in bad : i >= j

\* the first child whose evaluate raised or returned None, 0 without one
FirstUndefined(R) ==
    LET bad == {i \in DOMAIN R : R[i].res.tag \in {"error", "none"}}
    IN  IF bad = {} THEN 0 ELSE CHOOSE i \in bad : \A j \in bad : i <= j

\* mutant: a term equal to an earlier one is added once
RECURSIVE PySum_once(_, _)
PySum_once(terms, k) ==
    IF k = 0 THEN RScalar(Num(0))
    ELSE IF \E j \in 1..(k - 1) : terms[j] = terms[k]
    THEN PySum_once(terms, k - 1)
    ELSE RAdd(PySum_once(terms, k - 1), terms[k])

\* sum(term_1, ..., term_k): Python's sum starts from the int 0
RECURSIVE PySum(_, _)
PySum(terms, k) ==
    IF k = 0 THEN RScalar(Num(0)) ELSE RAdd(PySum(terms, k - 1), terms[k])

Min(a, b) == IF a <= b THEN a ELSE b

\* FSum.evaluate (coefficients unused) and FSumProd.evaluate: every child is
\* evaluated for the None test, then the zipped children again for the sum
Sum_evaluate(ns, n, T, prod) ==
    LET self == ns[n]
        chk  == Formula_evaluate(self, T)
    IN  IF IsError(chk) THEN Out(chk, CallLog(n))
        ELSE
        LET R == [i \in 1..Len(self.formulae) |-> evaluate(ns, self.formulae[i], T)]
            k == FirstUndefined(R)
            m == IF prod THEN Min(Len(self.formulae), Len(self.coefficients))
                 ELSE Len(self.formulae)
            terms == [i \in 1..m |->
                         IF prod THEN RMul(R[i].res, RScalar(self.coefficients[i]))
                         ELSE R[i].res]
        IN  IF k # 0 /\ IsError(R[k].res)
            THEN Out(R[k].res, CheckedLog(n) \o Logs(R, k))
            ELSE IF k # 0
            THEN Out(does_not_evaluate("some of the formulae do not evaluate"),
                     CheckedLog(n) \o Logs(R, k))
            ELSE Out(PySum(terms, m),
                     CheckedLog(n) \o Logs(R, Len(self.formulae)) \o Logs(R, m))

\* FMult.evaluate (div FALSE) and FDiv.evaluate (div TRUE)
Mult_evaluate(ns, n, T, div) ==
    LET self == ns[n]
        chk  == Formula_evaluate(self, T)
    IN  IF IsError(chk) THEN Out(chk, CallLog(n))
        ELSE
        LET R == [i \in 1..2 |-> evaluate(ns, self.formulae[i], T)]
            k == FirstUndefined(R)
        IN  IF k # 0 /\ IsError(R[k].res)
            THEN Out(R[k].res, CheckedLog(n) \o Logs(R, k))
            ELSE IF k # 0
            THEN Out(does_not_evaluate("formula does not evaluate"),
                     CheckedLog(n) \o Logs(R, k))
            ELSE IF div /\ R[1].res.tag # "series"
            THEN Out(Raise("AttributeError", "no attribute div"),
                     CheckedLog(n) \o Logs(R, 2) \o Logs(R, 1))
            ELSE Out(IF div
                     THEN (IF R[2].res.tag = "scalar"
                           THEN RSeries(ScalarDiv(R[1].res.val, R[2].res.val))
                           ELSE RSeries(SeriesDiv(R[1].res.val, R[2].res.val)))
                     ELSE RMul(R[1].res, R[2].res),
                     CheckedLog(n) \o Logs(R, 2) \o Logs(R, 2))

evaluate(ns, n, T) ==
    CASE ns[n].kind = "Indicator" -> Indicator_evaluate(ns, n, T)
      [] ns[n].kind = "FDeflate"  -> Deflate_evaluate(ns, n, T, TRUE)
      [] ns[n].kind = "FInflate"  -> Deflate_evaluate(ns, n, T, FALSE)
      [] ns[n].kind = "FSum"      -> Sum_evaluate(ns, n, T, FALSE)
      [] ns[n].kind = "FSumProd"  -> Sum_evaluate(ns, n, T, TRUE)
      [] ns[n].kind = "FMult"     -> Mult_evaluate(ns, n, T, FALSE)
      [] ns[n].kind = "FDiv"      -> Mult_evaluate(ns, n, T, TRUE)
      [] ns[n].kind = "MultCorr"  -> MultCorr_evaluate(ns, n, T)
      [] ns[n].kind = "AddCorr"   -> AddCorr_evaluate(ns, n, T)
      [] OTHER -> Out(IF IsError(Formula_evaluate(ns[n], T))
                      THEN Formula_evaluate(ns[n], T) ELSE RNone,
                      IF IsError(Formula_evaluate(ns[n], T))
                      THEN CallLog(n) ELSE CheckedLog(n))

-----------------------------------------------------------------------------
(* the calls a client makes *)

Call(op, n, arg, res, log) ==
    [op |-> op, node |-> n, arg |-> arg, out |-> res, log |-> log]

\* a constructor call: the node is added unless the constructor raised
Construct(r, arg) ==
    IF IsError(r)
    THEN /\ last' = Call("init", 0, arg, r, <<>>)
         /\ UNCHANGED <<nodes, tabs>>
    ELSE /\ nodes' = Append(nodes, r)
         /\ last' = Call("init", Len(nodes) + 1, arg, RNone, <<>>)
         /\ UNCHANGED tabs

NewIndicator(cfgs, cap) ==
    /\ Len(nodes) < cap
    /\ \E c \in cfgs :
          Construct(Indicator_init(c.name, c.annual_name, c.indicator_names,
                                   c.weight_names, c.correction_name,
                                   c.aggregation), c)

NewFormula(names, cap) ==
    /\ Len(nodes) < cap
    /\ \E nm \in names : Construct(Formula_init(nm), nm)

NewDeflate(cfgs, kids, cap) ==
    /\ Len(nodes) < cap
    /\ \E c \in cfgs, f \in {x \in kids : x <= Len(nodes)} :
          Construct(Deflate_init(nodes, c.kind, c.name, f, c.indicator_names,
                                 c.weight_names, c.correction_name),
                    [c EXCEPT !.formula = f])

NewSum(names, lists, cap) ==
    /\ Len(nodes) < cap
    /\ \E nm \in names, fs \in lists :
          /\ \A i \in 1..Len(fs) : fs[i] <= Len(nodes)
          /\ Construct(FSum_init(nodes, nm, fs), <<nm, fs>>)

NewSumProd(names, lists, coefs, cap) ==
    /\ Len(nodes) < cap
    /\ \E nm \in names, fs \in lists, cs \in coefs :
          /\ \A i \in 1..Len(fs) : fs[i] <= Len(nodes)
          /\ Construct(FSumProd_init(nodes, nm, fs, cs), <<nm, fs, cs>>)

NewMult(kinds, names, pairs, cap) ==
    /\ Len(nodes) < cap
    /\ \E k \in kinds, nm \in names, fs \in pairs :
          /\ \A i \in 1..2 : fs[i] <= Len(nodes)
          /\ Construct(Mult_init(nodes, k, nm, fs[1], fs[2]), <<k, nm, fs>>)

NewCorr(kinds, corrs, kids, cap) ==
    /\ Len(nodes) < cap
    /\ \E k \in kinds, c \in corrs, f \in {x \in kids : x <= Len(nodes)} :
          Construct(Corr_init(nodes, k, f, c), <<k, f, c>>)

\* mutant: the setter stores whatever it is given
baseyear_set_unchecked(self, v) == [self EXCEPT !.baseyear = Some(v.val)]

\* the baseyear setter: isinstance(baseyear, int) or TypeError.  bool is a
\* subclass of int: True passes the test and is stored, equal to 1
baseyear_set(self, v) ==
    IF v.type \notin {"int", "bool"} THEN Raise("TypeError", "baseyear must be int")
    ELSE [self EXCEPT !.baseyear = Some(v.val)]

SetBaseyear(args) ==
    \E n \in 1..Len(nodes), v \in args :
        LET r == baseyear_set(nodes[n], v)
        IN  IF IsError(r)
            THEN /\ last' = Call("baseyear", n, v, r, <<>>)
                 /\ UNCHANGED <<nodes, tabs>>
            ELSE /\ nodes' = [nodes EXCEPT ![n] = r]
                 /\ last' = Call("baseyear", n, v, RNone, <<>>)
                 /\ UNCHANGED tabs

\* mutant: a node's evaluate hands its own base year down to its children
Evaluate_propagating ==
    \E n \in 1..Len(nodes) :
        LET r == evaluate(nodes, n, tabs)
            kid(m) == \E i \in 1..Len(nodes[n].formulae) :
                          nodes[n].formulae[i] = m
        IN  /\ last' = Call("evaluate", n, <<>>, r.res, r.log)
            /\ nodes' = [m \in 1..Len(nodes) |->
                            IF kid(m)
                            THEN [nodes[m] EXCEPT !.baseyear = nodes[n].baseyear]
                            ELSE nodes[m]]
            /\ UNCHANGED tabs

Evaluate ==
    \E n \in 1..Len(nodes) :
        LET r == evaluate(nodes, n, tabs)
        IN  /\ last' = Call("evaluate", n, <<>>, r.res, r.log)
            /\ UNCHANGED <<nodes, tabs>>

-----------------------------------------------------------------------------
(* the tables the model passes *)

MaxVal == 2

Vals == 0..MaxVal

Y1 == 2020

Y2 == 2021

DataFrame(freq, periods, data) ==
    [type |-> "DataFrame", index |-> "PeriodIndex", freq |-> freq,
     periods |-> periods, cols |-> DOMAIN data, nonnum |-> {}, data |-> data]

Tables(a, i, w, c) == [annual |-> a, indicator |-> i, weight |-> w, correction |-> c]

AnnualPeriods == {<<Y1, 1>>, <<Y2, 1>>}

\* two half-years of Y1 and the first of Y2
IndPeriods == {<<Y1, 1>>, <<Y1, 2>>, <<Y2, 1>>}

AnnualDf(v1, v2) ==
    DataFrame("a", AnnualPeriods,
              [c \in {"a1"} |-> (<<Y1, 1>> :> Num(v1) @@ <<Y2, 1>> :> Num(v2))])

IndicatorDf(f) ==
    DataFrame("q", IndPeriods,
              [c \in {"i1", "i2"} |->
                  IF c = "i1" THEN [p \in IndPeriods |-> Num(f[p])]
                  ELSE (<<Y1, 1>> :> Num(1) @@ <<Y1, 2>> :> Num(-1) @@ <<Y2, 1>> :> Num(2))])

WeightDf(v) ==
    DataFrame("a", AnnualPeriods,
              [c \in {"w1", "w2"} |->
                  IF c = "w1" THEN (<<Y1, 1>> :> Num(v) @@ <<Y2, 1>> :> Num(3))
                  ELSE (<<Y1, 1>> :> Num(1) @@ <<Y2, 1>> :> Num(2))])

CorrectionDf(periods, v) ==
    DataFrame("q", periods,
              [c \in {"c1"} |-> [p \in periods |-> IF p = <<Y1, 1>> THEN Num(v) ELSE Num(p[2] + 1)]])

NumAnnual == {AnnualDf(3, 5), AnnualDf(0, 4)}

NumIndicator == {IndicatorDf(f) : f \in [IndPeriods -> Vals]}

NumWeight == {NoneDf} \cup {WeightDf(v) : v \in {0, 2}}

NumCorrection ==
    {NoneDf} \cup {CorrectionDf(IndPeriods, v) : v \in {0, 2}}
             \cup {CorrectionDf(IndPeriods \ {<<Y1, 2>>}, 2),
                   CorrectionDf(IndPeriods \cup {<<Y1, 3>>, <<Y2, 2>>}, 2)}

\* the scenario of the specification: four quarters 10, 20, 30, 40 of Y1 in
\* column i1 and the annual value 200
ExamplePeriods == {<<Y1, q>> : q \in 1..4}

ExampleTabs ==
    Tables(DataFrame("a", {<<Y1, 1>>}, [c \in {"a1"} |-> (<<Y1, 1>> :> Num(200))]),
           DataFrame("q", ExamplePeriods,
                     [c \in {"i1"} |-> [p \in ExamplePeriods |-> Num(10 * p[2])]]),
           NoneDf, NoneDf)

NumTabs ==
    {Tables(a, i, w, c) : a \in NumAnnual, i \in NumIndicator,
                          w \in NumWeight, c \in NumCorrection}
    \cup {ExampleTabs}

IndicatorCfg(names, weights, corr, agg) ==
    [name |-> "X", annual_name |-> "a1", indicator_names |-> names,
     weight_names |-> weights, correction_name |-> corr, aggregation |-> agg]

IndCfgs ==
    {IndicatorCfg(nw[1], nw[2], corr, agg) :
        nw \in {<< <<"i1">>, None >>, << <<"i1", "i2">>, None >>,
                << <<"i1">>, Some(<<"w1">>) >>,
                << <<"i1", "i2">>, Some(<<"w1", "w2">>) >>,
                << <<"i1", "i2">>, Some(<<"w2", "w1">>) >>},
        corr \in {"", "c1"}, agg \in {"sum", "AVG"}}

IntArg(y) == [type |-> "int", val |-> y]

YearArgs == {IntArg(Y1), IntArg(Y2)}

\* the arguments the specifications below hand to the constructors and to the
\* setter
PlainLeafCfgs == {IndicatorCfg(<<"i1">>, None, "", "sum")}

BaseYearArgs == {IntArg(Y1)}

MultKinds == {"FMult", "FDiv"}

CorrKinds == {"MultCorr", "AddCorr"}

ErrLists == {<<>>, <<1>>}

YearLists == {<<1>>, <<1, 2>>}

UndefPairs == {<<1, 2>>, <<2, 1>>, <<2, 2>>}

Start == Call("start", 0, <<>>, RNone, <<>>)

-----------------------------------------------------------------------------
(* one Indicator over numerically varied valid tables *)

InitInd ==
    /\ nodes = <<>>
    /\ tabs \in NumTabs
    /\ last = Start

NextInd ==
    \/ NewIndicator(IndCfgs, 1)
    \/ SetBaseyear(YearArgs)
    \/ Evaluate

SpecInd == InitInd /\ [][NextInd]_vars

-----------------------------------------------------------------------------
(* vocabulary of the properties: the combination c(p), its base-year       *)
(* aggregate and the annual value A, written from the specification's      *)
(* words.  Missing values are NaN and are skipped by sums and means, as    *)
(* pandas does.                                                            *)

IsNumber(v) == IsFinite(v) /\ v # Num(0)

Periods(s) == DOMAIN s

BaseYearOf(n) == nodes[n].baseyear[1]

ClaimA(n) == tabs.annual.data[nodes[n].annual_name][<<BaseYearOf(n), 1>>]

ClaimTerm(n, i, p) ==
    LET self == nodes[n]
        x    == tabs.indicator.data[self.indicator_names[i]][p]
    IN  IF Truthy(self.weight_names)
        THEN fmul(tabs.weight.data[self.weight_names[1][i]][<<BaseYearOf(n), 1>>], x)
        ELSE x

\* the weighted (or plain) sum of the node's indicator columns at p
ClaimWeighted(n, p) ==
    LET I == 1..Len(nodes[n].indicator_names)
    IN  IF p \in tabs.indicator.periods
        THEN SumOver([i \in I |-> ClaimTerm(n, i, p)], I)
        ELSE NaN

\* the node's correction column at p, missing where the table has no row
ClaimCorrection(n, p) ==
    IF p \in tabs.correction.periods
    THEN tabs.correction.data[nodes[n].correction_name][p]
    ELSE NaN

ClaimCombination(n, p) ==
    IF nodes[n].correction_name = "" THEN ClaimWeighted(n, p)
    ELSE fmul(ClaimWeighted(n, p), ClaimCorrection(n, p))

ClaimBasePeriods(n) ==
    {p \in tabs.indicator.periods :
        Year(p) = BaseYearOf(n) /\ ~IsNaN(ClaimCombination(n, p))}

ClaimAggregate(n) ==
    LET P   == ClaimBasePeriods(n)
        sum == SumOver([p \in P |-> ClaimCombination(n, p)], P)
    IN  IF nodes[n].aggregation = "sum" THEN sum
        ELSE IF P = {} THEN NaN
        ELSE fdiv(sum, Num(Cardinality(P)))

\* the aggregate of an output series over the base year in the node's mode
OutputAggregate(n, s) ==
    IF nodes[n].aggregation = "sum"
    THEN SumYear(s, BaseYearOf(n))
    ELSE MeanYear(s, BaseYearOf(n))

Evaluated(kinds) ==
    /\ last.op = "evaluate"
    /\ nodes[last.node].kind \in kinds
    /\ last.out.tag = "series"

-----------------------------------------------------------------------------
\* C1 as stated: whenever Indicator.evaluate returns, the aggregate (sum in
\* sum mode, mean in avg mode) of its output over the base year equals the
\* annual column's base-year value.
C1_Original ==
    Evaluated({"Indicator"}) =>
        OutputAggregate(last.node, last.out.val) = ClaimA(last.node)

\* C1 amended: the base-year aggregate of Indicator.evaluate's output equals
\* the annual base-year value whenever the base-year aggregate of the
\* combination is a finite number other than zero.
C1_BaseYearExact ==
    (Evaluated({"Indicator"}) /\ IsNumber(ClaimAggregate(last.node))) =>
        OutputAggregate(last.node, last.out.val) = ClaimA(last.node)

C1_Witness ==
    /\ Evaluated({"Indicator"})
    /\ IsNumber(ClaimAggregate(last.node))
    /\ Truthy(nodes[last.node].weight_names)
    /\ nodes[last.node].correction_name # ""
    /\ nodes[last.node].aggregation = "avg"
    /\ ClaimA(last.node) = Num(3)
    /\ OutputAggregate(last.node, last.out.val) = Num(3)
    /\ \E p \in Periods(last.out.val) : last.out.val[p] \notin {Num(0), Num(3)}

\* C2: at every period p of the indicator table Indicator.evaluate returns
\* A * c(p) / agg, with c the (weighted, corrected) combination and agg its
\* base-year sum or mean.
C2_Rescaled ==
    Evaluated({"Indicator"}) =>
        \A p \in tabs.indicator.periods :
            /\ p \in Periods(last.out.val)
            /\ last.out.val[p] =
                  fdiv(fmul(ClaimA(last.node), ClaimCombination(last.node, p)),
                       ClaimAggregate(last.node))

\* the specification's scenario: 10, 20, 30, 40 against 200 gives 20, 40, 60, 80
C2_Witness ==
    /\ Evaluated({"Indicator"})
    /\ tabs = ExampleTabs
    /\ nodes[last.node].aggregation = "sum"
    /\ last.out.val = [p \in ExamplePeriods |-> Num(20 * p[2])]

-----------------------------------------------------------------------------
(* a wrapper (FDeflate, FInflate, MultCorr, AddCorr) over one Indicator *)

WrapTabs ==
    {Tables(AnnualDf(3, 5), IndicatorDf(f), w, c) :
        f \in {g \in [IndPeriods -> Vals] : g[<<Y2, 1>>] = 1},
        w \in {NoneDf, WeightDf(2)}, c \in NumCorrection}

WrapLeafCfgs ==
    {IndicatorCfg(<<"i1">>, None, "", "sum"),
     IndicatorCfg(<<"i1", "i2">>, Some(<<"w1", "w2">>), "c1", "AVG")}

DeflateCfg(kind, names, weights, corr) ==
    [kind |-> kind, name |-> "y", formula |-> 0, indicator_names |-> names,
     weight_names |-> weights, correction_name |-> corr]

DeflateCfgs ==
    {DeflateCfg(k, nw[1], nw[2], corr) :
        k \in {"FDeflate", "FInflate"},
        nw \in {<< <<"i1">>, None >>, << <<"i1", "i2">>, Some(<<"w1", "w2">>) >>},
        corr \in {"", "c1"}}

InitWrap ==
    /\ nodes = <<>>
    /\ tabs \in WrapTabs
    /\ last = Start

NextWrap ==
    \/ NewIndicator(WrapLeafCfgs, 1)
    \/ NewDeflate(DeflateCfgs, {1}, 2)
    \/ NewCorr(CorrKinds, {"c1"}, {1}, 2)
    \/ SetBaseyear(YearArgs)
    \/ Evaluate

SpecWrap == InitWrap /\ [][NextWrap]_vars

-----------------------------------------------------------------------------
(* vocabulary of the wrapper properties *)

\* what the wrapped child's own evaluate returns on the same tables
ChildResult(n) == evaluate(nodes, nodes[n].formulae[1], tabs).res

At(s, p) == IF p \in DOMAIN s THEN s[p] ELSE NaN

\* the series a wrapper re-anchors: child / combination (FDeflate), child *
\* combination (FInflate), child (MultCorr), times the correction if any
ClaimIntermediate(n, p) ==
    LET c == At(ChildResult(n).val, p)
        t == CASE nodes[n].kind = "FDeflate" -> fdiv(c, ClaimWeighted(n, p))
               [] nodes[n].kind = "FInflate" -> fmul(c, ClaimWeighted(n, p))
               [] OTHER -> c
    IN  IF nodes[n].correction_name = "" THEN t
        ELSE fmul(t, ClaimCorrection(n, p))

ClaimIntermediateSum(n) ==
    LET P == {p \in DOMAIN ChildResult(n).val :
                 Year(p) = BaseYearOf(n) /\ ~IsNaN(ClaimIntermediate(n, p))}
    IN  SumOver([p \in P |-> ClaimIntermediate(n, p)], P)

Reanchoring == {"FDeflate", "FInflate", "MultCorr"}

-----------------------------------------------------------------------------
\* C3 as stated: whenever FDeflate, FInflate or MultCorr evaluates, the sum of
\* its output over its base year equals the sum of the child's series over it.
C3_Original ==
    Evaluated(Reanchoring) =>
        SumYear(last.out.val, BaseYearOf(last.node))
            = SumYear(ChildResult(last.node).val, BaseYearOf(last.node))

\* C3 amended: the base-year sums of the output and of the child's series are
\* equal whenever the child's base-year sum is finite and the base-year sum of
\* the series being re-anchored is a finite number other than zero.
C3_TotalPreserved ==
    (/\ Evaluated(Reanchoring)
     /\ IsFinite(SumYear(ChildResult(last.node).val, BaseYearOf(last.node)))
     /\ IsNumber(ClaimIntermediateSum(last.node))) =>
        SumYear(last.out.val, BaseYearOf(last.node))
            = SumYear(ChildResult(last.node).val, BaseYearOf(last.node))

C3_Witness ==
    /\ Evaluated({"FDeflate"})
    /\ IsNumber(ClaimIntermediateSum(last.node))
    /\ Truthy(nodes[last.node].weight_names)
    /\ nodes[last.node].correction_name # ""
    /\ BaseYearOf(last.node) = Y1
    /\ SumYear(last.out.val, Y1) = Num(3)
    /\ SumYear(ChildResult(last.node).val, Y1) = Num(3)
    /\ \E p \in Periods(last.out.val) :
          /\ Year(p) = Y1
          /\ IsFinite(last.out.val[p])
          /\ last.out.val[p] # At(ChildResult(last.node).val, p)

-----------------------------------------------------------------------------
(* vocabulary of the AddCorr property *)

CorrectionColumn(n) == tabs.correction.data[nodes[n].correction_name]

\* output - child, where both have a value
Difference(n) ==
    LET c == ChildResult(n).val
    IN  [p \in (DOMAIN last.out.val) \cup (DOMAIN c) |->
            fsub(At(last.out.val, p), At(c, p))]

AddCorrEvaluated ==
    /\ Evaluated({"AddCorr"})
    /\ ChildResult(last.node).tag = "series"

\* output(p) = correction(p) + child(p) - mean of the correction column over
\* the base year, wherever the correction and the child both have a value
AddCorrPointwise(n) ==
    LET col   == CorrectionColumn(n)
        c     == ChildResult(n).val
        P     == {p \in DOMAIN col : Year(p) = BaseYearOf(n)}
        level == fdiv(SumOver(col, P), Num(Cardinality(P)))
    IN  \A p \in (DOMAIN col) \cap (DOMAIN c) :
            /\ p \in DOMAIN last.out.val
            /\ last.out.val[p] = fsub(fadd(col[p], c[p]), level)

\* every base-year period of the correction column is a period of the child's
\* series, and both values there are finite
SameBaseYear(n) ==
    LET col == CorrectionColumn(n)
        c   == ChildResult(n).val
    IN  \A p \in InYear(col, BaseYearOf(n)) :
            p \in DOMAIN c /\ IsFinite(col[p]) /\ IsFinite(c[p])

\* C4 as stated: AddCorr.evaluate returns correction + child - base-year mean
\* of the correction, so the base-year mean of output - child is 0.
C4_Original ==
    AddCorrEvaluated =>
        /\ AddCorrPointwise(last.node)
        /\ MeanYear(Difference(last.node), BaseYearOf(last.node)) = Num(0)

\* C4 amended: AddCorr.evaluate returns correction + child - base-year mean of
\* the correction; the base-year mean of output - child is 0 whenever the
\* correction column and the child's series hold finite values at the same
\* base-year periods.
C4_LevelAnchored ==
    AddCorrEvaluated =>
        /\ AddCorrPointwise(last.node)
        /\ SameBaseYear(last.node) =>
              MeanYear(Difference(last.node), BaseYearOf(last.node)) = Num(0)

C4_Witness ==
    /\ AddCorrEvaluated
    /\ SameBaseYear(last.node)
    /\ BaseYearOf(last.node) = Y1
    /\ MeanYear(Difference(last.node), Y1) = Num(0)
    /\ \E p \in InYear(last.out.val, Y1) :
          /\ last.out.val[p] # ChildResult(last.node).val[p]
          /\ ChildResult(last.node).val[p] # Num(0)

-----------------------------------------------------------------------------
(* a combinator (FSum, FSumProd, FMult, FDiv) over two Indicators *)

CombTabs ==
    {Tables(AnnualDf(3, 5), IndicatorDf(f), NoneDf, NoneDf) :
        f \in {g \in [IndPeriods -> Vals] : g[<<Y2, 1>>] = 1}}

CombLeafCfgs ==
    {IndicatorCfg(<<"i1">>, None, "", "sum"),
     IndicatorCfg(<<"i1", "i2">>, None, "", "AVG")}

\* child lists: one, two different, one child twice, three
ChildLists == {<<2>>, <<1, 2>>, <<2, 2>>, <<1, 2, 1>>}

\* coefficient lists, shorter and longer than the child lists among them
CoefLists == {<<Num(2)>>, <<Num(2), Num(-1)>>, <<Num(1), Num(1), Num(3)>>}

ChildPairs == {<<1, 2>>, <<2, 1>>, <<1, 1>>}

InitComb ==
    /\ nodes = <<>>
    /\ tabs \in CombTabs
    /\ last = Start

NextComb ==
    \/ NewIndicator(CombLeafCfgs, 2)
    \/ NewSum({"s"}, ChildLists, 3)
    \/ NewSumProd({"s"}, ChildLists, CoefLists, 3)
    \/ NewMult(MultKinds, {"m"}, ChildPairs, 3)
    \/ SetBaseyear(BaseYearArgs)
    \/ Evaluate

SpecComb == InitComb /\ [][NextComb]_vars

-----------------------------------------------------------------------------
(* vocabulary of the combinator properties *)

\* what the i-th child's own evaluate returns on the same tables
Child(n, i) == evaluate(nodes, nodes[n].formulae[i], tabs).res

ChildrenEvaluate(n) ==
    \A i \in 1..Len(nodes[n].formulae) : Child(n, i).tag = "series"

\* the node's own base year is set and the tables are valid for it
Validated(n) == ~IsError(Formula_evaluate(nodes[n], tabs))

\* the sum over the child list, one term per position
ClaimSum(n, p) ==
    SumTo([i \in 1..Len(nodes[n].formulae) |-> Child(n, i).val[p]],
          Len(nodes[n].formulae))

ClaimArithmetic(n, p) ==
    CASE nodes[n].kind = "FSum"  -> ClaimSum(n, p)
      [] nodes[n].kind = "FMult" -> fmul(Child(n, 1).val[p], Child(n, 2).val[p])
      [] nodes[n].kind = "FDiv"  -> fdiv(Child(n, 1).val[p], Child(n, 2).val[p])

\* C5: when its children all evaluate to series, FSum / FMult / FDiv returns
\* period by period their sum / product / quotient, nothing re-anchored, a
\* child listed twice counted twice.
C5_Elementwise ==
    (/\ last.op = "evaluate"
     /\ nodes[last.node].kind \in {"FSum", "FMult", "FDiv"}
     /\ Validated(last.node)
     /\ ChildrenEvaluate(last.node)) =>
        /\ last.out.tag = "series"
        /\ Periods(last.out.val) = tabs.indicator.periods
        /\ \A p \in tabs.indicator.periods :
              last.out.val[p] = ClaimArithmetic(last.node, p)

C5_Witness ==
    /\ Evaluated({"FSum"})
    /\ nodes[last.node].formulae = <<1, 2, 1>>
    /\ \E p \in Periods(last.out.val) :
          /\ IsNumber(Child(last.node, 1).val[p])
          /\ IsNumber(Child(last.node, 2).val[p])
          /\ Child(last.node, 1).val[p] # Child(last.node, 2).val[p]
          /\ last.out.val[p] = fadd(fmul(Num(2), Child(last.node, 1).val[p]),
                                    Child(last.node, 2).val[p])

\* C6 as stated: FSumProd.evaluate returns the sum over every child of the
\* child list of the child's series times the coefficient at its position;
\* every child has a term.
C6_Original ==
    (/\ last.op = "evaluate"
     /\ nodes[last.node].kind = "FSumProd"
     /\ Validated(last.node)
     /\ ChildrenEvaluate(last.node)) =>
        LET self == nodes[last.node]
            I    == 1..Len(self.formulae)
        IN  /\ \A i \in I : i \in DOMAIN self.coefficients
            /\ last.out.tag = "series"
            /\ \A p \in tabs.indicator.periods :
                  last.out.val[p] =
                      SumTo([i \in I |-> fmul(Child(last.node, i).val[p],
                                              self.coefficients[i])], Len(self.formulae))

-----------------------------------------------------------------------------
(* the validator on its own: Formula._check_df is a static method, called  *)
(* here on one table of every shape                                        *)

\* an argument that is no DataFrame (a str)
NotDf ==
    [type |-> "str", index |-> "", freq |-> "", periods |-> {},
     cols |-> {}, nonnum |-> {}, data |-> <<>>]

ShapeDfs ==
    {NotDf} \cup
    {[type |-> "DataFrame", index |-> ix, freq |-> fr, periods |-> ps,
      cols |-> {"a1", "a2"}, nonnum |-> nn, data |-> <<>>] :
        ix \in {"PeriodIndex", "DatetimeIndex"}, fr \in {"a", "q"},
        ps \in {{}, {<<Y1, 1>>}, {<<Y2, 1>>}, {<<Y1, 1>>, <<Y2, 1>>}},
        nn \in {{}, {"a2"}}}

CheckArgs == {<<by, fr>> : by \in {Y1, Y2}, fr \in {"", "a", "q"}}

CheckDf ==
    \E a \in CheckArgs :
        /\ last' = Call("_check_df", 0, a, check_df(tabs.annual, a[1], a[2]), <<>>)
        /\ UNCHANGED <<nodes, tabs>>

InitCheck ==
    /\ nodes = <<>>
    /\ tabs \in {Tables(df, NoneDf, NoneDf, NoneDf) : df \in ShapeDfs}
    /\ last = Start

NextCheck == CheckDf

SpecCheck == InitCheck /\ [][NextCheck]_vars

-----------------------------------------------------------------------------
(* vocabulary of the validator property: the five checks in the stated     *)
(* order, and the exception classes that stand for each error kind         *)

TypeKind == "TypeError"

SchemaKinds == {"AttributeError", "NameError"}

RangeKind == "IndexError"

\* the position of the first violated check, 0 when none is violated
FirstViolated(df, by, fr) ==
    IF df.type # "DataFrame" THEN 1
    ELSE IF df.index # "PeriodIndex" THEN 2
    ELSE IF fr # "" /\ df.freq # fr THEN 3
    ELSE IF \A p \in df.periods : Year(p) # by THEN 4
    ELSE IF df.nonnum # {} THEN 5
    ELSE 0

CheckCalled == last.op = "_check_df"

CheckFirst == FirstViolated(tabs.annual, last.arg[1], last.arg[2])

\* C8 as stated: the first violated check is reported, a non-numeric column
\* with the kind of the index and frequency failures.
C8_Original ==
    CheckCalled =>
        /\ IsError(last.out) <=> CheckFirst # 0
        /\ CheckFirst = 1 => Exc(last.out) = TypeKind
        /\ CheckFirst \in {2, 3, 5} => Exc(last.out) \in SchemaKinds
        /\ CheckFirst = 4 => Exc(last.out) = RangeKind

\* C8 amended: the first violated check is reported: not a DataFrame with
\* TypeKind, index and frequency with SchemaKind, no base-year row with
\* RangeKind, a non-numeric column with TypeKind, the kind of the not-tabular
\* failure and not that of the index and frequency failures; no error exactly
\* when no check is violated.
C8_FirstViolated ==
    CheckCalled =>
        /\ IsError(last.out) <=> CheckFirst # 0
        /\ CheckFirst \in {1, 5} => Exc(last.out) = TypeKind
        /\ CheckFirst \in {2, 3} => Exc(last.out) \in SchemaKinds
        /\ CheckFirst = 4 => Exc(last.out) = RangeKind
        /\ TypeKind \notin SchemaKinds

C8_Witness ==
    /\ CheckCalled
    /\ tabs.annual.nonnum # {}
    /\ CheckFirst = 5
    /\ Exc(last.out) = "TypeError"

-----------------------------------------------------------------------------
(* every node kind over tables with defects: a table that is no DataFrame, *)
(* a missing column, no row for a year, a table not supplied, a correction *)
(* table with more periods than the indicator table                        *)

\* the table df with column old renamed to new
Renamed(df, old, new) ==
    [df EXCEPT !.cols = (df.cols \ {old}) \cup {new},
               !.data = [c \in (df.cols \ {old}) \cup {new} |->
                            IF c = new THEN df.data[old] ELSE df.data[c]]]

\* the rows of df for the years ys
Rows(df, ys) ==
    LET ps == {p \in df.periods : Year(p) \in ys}
    IN  [df EXCEPT !.periods = ps,
                   !.data = [c \in df.cols |-> [p \in ps |-> df.data[c][p]]]]

GoodIndicator == IndicatorDf([p \in IndPeriods |-> 1])

ErrAnnual ==
    {AnnualDf(3, 5), Renamed(AnnualDf(3, 5), "a1", "a9"),
     Rows(AnnualDf(3, 5), {Y2}), NotDf}

ErrIndicator ==
    {GoodIndicator, Renamed(GoodIndicator, "i1", "i9"), Rows(GoodIndicator, {Y2})}

ErrWeight ==
    {NoneDf, WeightDf(2), Renamed(WeightDf(2), "w1", "w9"), Rows(WeightDf(2), {Y2})}

ErrCorrection ==
    {NoneDf, CorrectionDf(IndPeriods, 2),
     Renamed(CorrectionDf(IndPeriods, 2), "c1", "c9"),
     Rows(CorrectionDf(IndPeriods, 2), {Y2}),
     CorrectionDf(IndPeriods \cup {<<Y1, 3>>, <<Y2, 2>>}, 2)}

ErrTabs ==
    {Tables(a, i, w, c) : a \in ErrAnnual, i \in ErrIndicator,
                          w \in ErrWeight, c \in ErrCorrection}

ErrLeafCfgs ==
    {IndicatorCfg(<<"i1">>, None, "", "sum"),
     IndicatorCfg(<<"i1">>, Some(<<"w1">>), "c1", "sum")}

ErrDeflateCfgs ==
    {DeflateCfg(k, <<"i1">>, nw[1], nw[2]) :
        k \in {"FDeflate", "FInflate"},
        nw \in {<<None, "">>, <<Some(<<"w1">>), "c1">>}}

InitErr ==
    /\ nodes = <<>>
    /\ tabs \in ErrTabs
    /\ last = Start

NextErr ==
    \/ NewIndicator(ErrLeafCfgs, 1)
    \/ NewFormula({"f"}, 1)
    \/ NewDeflate(ErrDeflateCfgs, {1}, 2)
    \/ NewSum({"s"}, ErrLists, 2)
    \/ NewSumProd({"s"}, {<<1>>}, {<<Num(2)>>}, 2)
    \/ NewMult(MultKinds, {"m"}, {<<1, 1>>}, 2)
    \/ NewCorr(CorrKinds, {"c1"}, {1}, 2)
    \/ SetBaseyear(YearArgs)
    \/ Evaluate

SpecErr == InitErr /\ [][NextErr]_vars

-----------------------------------------------------------------------------
(* vocabulary of the error properties *)

ConfigError == Raise("ValueError", "baseyear is None")

\* the nodes whose evaluate the last call entered
Reached == {last.log[i][2] : i \in {j \in DOMAIN last.log : last.log[j][1] = "call"}}

\* the nodes whose tables the last call validated
Checked == {last.log[i][2] : i \in {j \in DOMAIN last.log : last.log[j][1] = "checked"}}

Unset(n) == nodes[n].baseyear = None

\* C7: evaluate fails with ConfigKind whenever it reaches a node whose base
\* year is unset, the evaluated node itself or a descendant of a node whose
\* own base year is set, whatever the tables are; no table is validated for
\* the unset node and no series is returned.
C7_UnsetBaseYear ==
    (last.op = "evaluate" /\ \E d \in Reached : Unset(d)) =>
        /\ last.out = ConfigError
        /\ \A d \in Reached : Unset(d) => d \notin Checked
        /\ Unset(last.node) => Checked = {}

C7_Witness ==
    /\ last.op = "evaluate"
    /\ nodes[last.node].kind = "FSum"
    /\ ~Unset(last.node)
    /\ Reached = {1, 2}
    /\ Unset(1)
    /\ tabs.correction.type = "DataFrame"
    /\ "c1" \notin tabs.correction.cols
    /\ last.out = ConfigError

-----------------------------------------------------------------------------
(* vocabulary of the missing-column and missing-row property *)

Configurable == {"Indicator", "FInflate", "FDeflate"}

Supplied == {df \in {tabs.annual, tabs.indicator, tabs.weight, tabs.correction} :
                ~IsNone(df)}

\* every supplied table is a DataFrame
Tabular == \A df \in Supplied : df.type = "DataFrame"

\* a supplied table has no row in the node's base year
NoRow(n) == \E df \in Supplied : \A p \in df.periods : Year(p) # BaseYearOf(n)

\* a configured annual, indicator or weight column is absent from its table,
\* or weights are configured and no weight table is supplied
MissingInput(n) ==
    LET self == nodes[n]
    IN  \/ self.kind = "Indicator" /\ self.annual_name \notin tabs.annual.cols
        \/ \E i \in DOMAIN self.indicator_names :
              self.indicator_names[i] \notin tabs.indicator.cols
        \/ /\ Truthy(self.weight_names)
           /\ \/ IsNone(tabs.weight)
              \/ \E i \in DOMAIN self.weight_names[1] :
                    self.weight_names[1][i] \notin tabs.weight.cols

\* a correction is configured and its column or its table is missing
MissingCorrection(n) ==
    /\ nodes[n].correction_name # ""
    /\ IsNone(tabs.correction) \/ nodes[n].correction_name \notin tabs.correction.cols

ConfigurableCalled ==
    /\ last.op = "evaluate"
    /\ nodes[last.node].kind \in Configurable
    /\ ~Unset(last.node)
    /\ Tabular

-----------------------------------------------------------------------------
\* C10 as stated: every evaluate that returns, on a node of any kind but the
\* bare Formula, returns one series whose periods are exactly the periods of
\* the indicator table.
C10_Original ==
    (/\ last.op = "evaluate"
     /\ nodes[last.node].kind # "Formula"
     /\ ~IsError(last.out)) =>
        /\ last.out.tag = "series"
        /\ Periods(last.out.val) = tabs.indicator.periods

-----------------------------------------------------------------------------
(* a combinator over an Indicator and a bare Formula, whose evaluate       *)
(* returns None, on valid tables                                           *)

UndefTabs ==
    {Tables(AnnualDf(3, 5), GoodIndicator, w, NoneDf) : w \in {NoneDf, WeightDf(2)}}

UndefLists == {<<2>>, <<1, 2>>, <<2, 1>>, <<1, 2, 1>>}

InitUndef ==
    /\ nodes = <<>>
    /\ tabs \in UndefTabs
    /\ last = Start

NextUndef ==
    \/ NewIndicator(PlainLeafCfgs, 1)
    \/ NewFormula({"f"}, 2)
    \/ NewSum({"s"}, UndefLists, 3)
    \/ NewSumProd({"s"}, UndefLists, {<<Num(1), Num(2), Num(3)>>}, 3)
    \/ NewMult(MultKinds, {"m"}, UndefPairs, 3)
    \/ SetBaseyear(YearArgs)
    \/ Evaluate

SpecUndef == InitUndef /\ [][NextUndef]_vars

Combinators == {"FSum", "FSumProd", "FMult", "FDiv"}

AllSet == \A n \in 1..Len(nodes) : ~Unset(n)

\* a child of n returns None and no child of n raises
SomeChildUndefined(n) ==
    /\ \E i \in 1..Len(nodes[n].formulae) : Child(n, i).tag = "none"
    /\ \A i \in 1..Len(nodes[n].formulae) : ~IsError(Child(n, i))

\* C11: on valid tables with the base years set, FSum, FSumProd, FMult and
\* FDiv fail with ValueKind, returning no series, when a child's evaluate
\* returns None.
C11_UndefinedChild ==
    (/\ last.op = "evaluate"
     /\ nodes[last.node].kind \in Combinators
     /\ AllSet
     /\ SomeChildUndefined(last.node)) =>
        /\ IsError(last.out)
        /\ Exc(last.out) = "ValueError"
        /\ last.out # ConfigError

C11_Witness ==
    /\ last.op = "evaluate"
    /\ nodes[last.node].kind = "FMult"
    /\ AllSet
    /\ Child(last.node, 1).tag = "series"
    /\ Child(last.node, 2).tag = "none"
    /\ last.out = Raise("ValueError", "formula does not evaluate")

-----------------------------------------------------------------------------
(* constructions and base-year assignments of every sort of argument *)

\* arguments of the setter: years, zero, a negative int, True, and a str,
\* a float and None (val is what would be stored)
SetterArgs ==
    {IntArg(Y1), IntArg(Y2), IntArg(0), IntArg(-1),
     [type |-> "bool", val |-> 1], [type |-> "str", val |-> Y1],
     [type |-> "float", val |-> Y1], [type |-> "NoneType", val |-> 0]}

InitYear ==
    /\ nodes = <<>>
    /\ tabs = Tables(AnnualDf(3, 5), GoodIndicator, NoneDf, NoneDf)
    /\ last = Start

NextYear ==
    \/ NewFormula({"f"}, 3)
    \/ NewIndicator(PlainLeafCfgs, 3)
    \/ NewSum({"s"}, YearLists, 3)
    \/ SetBaseyear(SetterArgs)

SpecYear == InitYear /\ [][NextYear]_vars

Assigned == last'.op = "baseyear" /\ last' # last

\* the step leaves every node but n as it was
OnlyNode(n) ==
    /\ Len(nodes') = Len(nodes)
    /\ \A m \in 1..Len(nodes) : m # n => nodes'[m] = nodes[m]

\* C12 as stated: every base year is unset or a positive integer; a rejected
\* assignment fails with TypeKind and changes nothing, an accepted one changes
\* the base year of its node only.
C12_Original ==
    [][/\ \A m \in 1..Len(nodes') :
             nodes'[m].baseyear = None \/ nodes'[m].baseyear[1] > 0
       /\ Assigned =>
             IF IsError(last'.out)
             THEN Exc(last'.out) = TypeKind /\ nodes' = nodes
             ELSE OnlyNode(last'.node)]_vars

\* C12 amended: every base year is unset or an integer, of any sign; exactly
\* the arguments that are no int are rejected, with TypeKind and no change;
\* an accepted assignment stores the argument in its node and changes nothing
\* else.
C12_Assignments ==
    [][/\ \A m \in 1..Len(nodes') :
             nodes'[m].baseyear = None \/ nodes'[m].baseyear[1] \in Int
       /\ Assigned =>
             /\ IsError(last'.out) <=> last'.arg.type \notin {"int", "bool"}
             /\ IF IsError(last'.out)
                THEN Exc(last'.out) = TypeKind /\ nodes' = nodes
                ELSE /\ OnlyNode(last'.node)
                     /\ nodes'[last'.node] =
                           [nodes[last'.node] EXCEPT !.baseyear = Some(last'.arg.val)]]_vars

\* a rejected assignment after an accepted one on a second node
C12_Witness ==
    /\ last.op = "baseyear"
    /\ IsError(last.out)
    /\ last.arg.type = "str"
    /\ Len(nodes) = 3
    /\ last.node = 2
    /\ nodes[2].baseyear = Some(Y1)
    /\ nodes[1].baseyear = Some(-1)
    /\ nodes[3].baseyear = None

-----------------------------------------------------------------------------
(* constructions of Indicator, FDeflate and FInflate with name lists of    *)
(* every pair of lengths                                                   *)

NameLists == {<<>>, <<"i1">>, <<"i1", "i2">>}

WeightLists ==
    {None, Some(<<>>), Some(<<"w1">>), Some(<<"w1", "w2">>),
     Some(<<"w1", "w2", "w1">>)}

ShapeLeafCfgs ==
    {IndicatorCfg(ns, ws, "", "sum") : ns \in NameLists, ws \in WeightLists}

ShapeDeflateCfgs ==
    {DeflateCfg(k, ns, ws, "") :
        k \in {"FDeflate", "FInflate"}, ns \in NameLists, ws \in WeightLists}

InitShape ==
    /\ nodes = <<>>
    /\ tabs = Tables(AnnualDf(3, 5), GoodIndicator, NoneDf, NoneDf)
    /\ last = Start

NextShape ==
    \/ NewIndicator(ShapeLeafCfgs, 1)
    \/ NewDeflate(ShapeDeflateCfgs, {1}, 2)

SpecShape == InitShape /\ [][NextShape]_vars

ShapeKind == "IndexError"

\* the last call constructed, or failed to construct, a node with a supplied
\* weight list as long as wl and an indicator list as long as il
Lengths(wl, il) ==
    /\ last.op = "init"
    /\ last.arg.weight_names # None
    /\ Len(last.arg.weight_names[1]) = wl
    /\ Len(last.arg.indicator_names) = il

\* C13 as stated: a supplied weight-name list of another length than the
\* indicator-name list makes the constructor of Indicator, FDeflate and
\* FInflate fail with ShapeKind, and no node is created.
C13_Original ==
    \A wl \in 0..3, il \in 0..2 :
        (Lengths(wl, il) /\ wl # il) =>
            /\ IsError(last.out)
            /\ Exc(last.out) = ShapeKind
            /\ last.node = 0

-----------------------------------------------------------------------------
(* Indicators of every aggregation argument *)

AggArgs == {"sum", "SUM", "avg", "AVG", "median", ""}

AggCfgs == {IndicatorCfg(<<"i1">>, None, "", a) : a \in AggArgs}

InitAgg ==
    /\ nodes = <<>>
    /\ tabs \in CombTabs
    /\ last = Start

NextAgg ==
    \/ NewIndicator(AggCfgs, 1)
    \/ SetBaseyear(YearArgs)
    \/ Evaluate

SpecAgg == InitAgg /\ [][NextAgg]_vars

Modes == {"sum", "avg"}

-----------------------------------------------------------------------------
(* Constructors given a child that is no Formula: 0 stands for an object   *)
(* of another class, a string or a number, that has no attribute name.     *)

KidCfgs ==
    {[kind |-> k, name |-> "d", formula |-> 0, indicator_names |-> <<"i1">>,
      weight_names |-> None, correction_name |-> ""] :
        k \in {"FDeflate", "FInflate"}}

KidLists == {<<0>>, <<1>>, <<1, 0>>, <<0, 1>>}

KidPairs == {<<0, 1>>, <<1, 0>>, <<0, 0>>, <<1, 1>>}

InitKid ==
    /\ nodes = <<>>
    /\ tabs = ExampleTabs
    /\ last = Start

NextKid ==
    \/ NewIndicator(PlainLeafCfgs, 1)
    \/ NewDeflate(KidCfgs, 0..1, 3)
    \/ NewSum({"s"}, KidLists, 3)
    \/ NewSumProd({"p"}, KidLists, {<<Num(1), Num(2)>>}, 3)
    \/ NewMult(MultKinds, {"m"}, KidPairs, 3)
    \/ NewCorr(CorrKinds, {"c1"}, 0..1, 3)

SpecKid == InitKid /\ [][NextKid]_vars

\* C15 as stated: a constructor that takes children fails with TypeKind and
\* creates no node when a child argument is not a Formula, the first and the
\* second argument of FMult and FDiv alike.  Every other argument of SpecKid
\* is valid, so a constructor of SpecKid fails on a child only.
C15_Original ==
    /\ (last.op = "init" /\ IsError(last.out)) =>
          Exc(last.out) = TypeKind /\ last.node = 0
    /\ \A n \in 1..Len(nodes) : \A i \in 1..Len(nodes[n].formulae) :
          IsFormula(nodes, nodes[n].formulae[i])

-----------------------------------------------------------------------------
(* evaluate as a function of the configuration *)

\* what evaluate of node n returns in the present state
Returns(n) == evaluate(nodes, n, tabs).res

-----------------------------------------------------------------------------
(* Trees of three nodes: a leaf, a node over it, a node over the two *)

TreeTabs ==
    {Tables(AnnualDf(3, 5), GoodIndicator, WeightDf(2), c) :
        c \in {NoneDf, CorrectionDf(IndPeriods, 2)}}

TreeLeafCfgs ==
    {IndicatorCfg(<<"i1">>, None, "", "sum"),
     IndicatorCfg(<<"i1">>, Some(<<"w1">>), "c1", "sum")}

TreeDeflateCfgs ==
    {DeflateCfg(k, nc[1], None, nc[2]) :
        k \in {"FDeflate", "FInflate"},
        nc \in {<< <<"i1">>, "" >>, << <<"i9">>, "" >>, << <<"i1">>, "c1" >>}}

TreeLists == {<<1>>, <<1, 2>>, <<2, 1>>}

TreePairs == {<<1, 1>>, <<1, 2>>, <<2, 1>>}

InitTree ==
    /\ nodes = <<>>
    /\ tabs \in TreeTabs
    /\ last = Start

NextTree ==
    \/ NewIndicator(TreeLeafCfgs, 1)
    \/ NewDeflate(TreeDeflateCfgs, 1..2, 3)
    \/ NewSum({"s"}, TreeLists, 3)
    \/ NewSumProd({"p"}, TreeLists, {<<Num(1), Num(2)>>}, 3)
    \/ NewMult(MultKinds, {"m"}, TreePairs, 3)
    \/ NewCorr(CorrKinds, {"c1"}, 1..2, 3)
    \/ SetBaseyear(BaseYearArgs)
    \/ Evaluate

SpecTree == InitTree /\ [][NextTree]_vars

-----------------------------------------------------------------------------
(* vocabulary of the tree properties *)

\* the nodes whose evaluate the evaluate of n calls
Children(n) == {nodes[n].formulae[i] : i \in 1..Len(nodes[n].formulae)}

\* the nodes of the child map of n
Mapped(n) == {nodes[n].calls_on[nm] : nm \in DOMAIN nodes[n].calls_on}

\* every child was constructed before its parent
WellFounded ==
    \A n \in 1..Len(nodes) :
        \A m \in Children(n) \cup Mapped(n) : m \in 1..(n - 1)

\* a bound on the invocations of evaluate under node n, from its i-th child
\* on: a node invokes the evaluate of each child at most twice
RECURSIVE MaxCalls(_, _)
MaxCalls(n, i) ==
    IF i > Len(nodes[n].formulae) THEN 1
    ELSE 2 * MaxCalls(nodes[n].formulae[i], 1) + MaxCalls(n, i + 1)

Invocations(log) == Cardinality({i \in 1..Len(log) : log[i][1] = "call"})

\* C17: the child relation is acyclic, every child being older than its
\* parent; a constructor leaves the child map and the children of every
\* existing node as they were; and an evaluate ends after a bounded number of
\* invocations, all but the first of nodes older than the node evaluated.
C17_Acyclic ==
    /\ [](/\ WellFounded
          /\ last.op = "evaluate" =>
                /\ Invocations(last.log) <= MaxCalls(last.node, 1)
                /\ last.log[1] = <<"call", last.node>>
                /\ \A i \in 2..Len(last.log) :
                      last.log[i][1] = "call" => last.log[i][2] < last.node)
    /\ [][last'.op = "init" =>
             \A n \in 1..Len(nodes) :
                 /\ nodes'[n].calls_on = nodes[n].calls_on
                 /\ nodes'[n].formulae = nodes[n].formulae]_vars

\* a node over a node over a leaf has been evaluated to a series
C17_Witness ==
    /\ Len(nodes) = 3
    /\ 2 \in Children(3)
    /\ 1 \in Children(2)
    /\ last.op = "evaluate"
    /\ last.node = 3
    /\ last.out.tag = "series"
    /\ Invocations(last.log) > 3


\* evaluate of node d was invoked during the last evaluate
Called(d) == \E i \in 1..Len(last.log) : last.log[i] = <<"call", d>>

\* the place in the log of the first invocation of evaluate of node d
FirstCall(d) ==
    CHOOSE i \in 1..Len(last.log) :
        /\ last.log[i] = <<"call", d>>
        /\ \A j \in 1..(i - 1) : last.log[j] # <<"call", d>>

\* the descendants whose evaluate was invoked and raised
Failed == {d \in 1..(last.node - 1) : Called(d) /\ IsError(Returns(d))}

\* C18: the base-year check and the validation of the tables of a node come
\* right after its evaluate is invoked, before the evaluate of any child;
\* the children are evaluated in the order of the constructor's arguments; an
\* error raised by a descendant is what the root raises, unchanged, and
\* after the first failing invocation nothing else is evaluated.
C18_DepthFirst ==
    last.op = "evaluate" =>
        LET log == last.log
            fs  == nodes[last.node].formulae
        IN  /\ \A i \in 1..Len(log) :
                  log[i][1] = "call" =>
                      \/ i = Len(log) /\ IsError(last.out)
                      \/ i < Len(log) /\ log[i + 1] = <<"checked", log[i][2]>>
            /\ \A i \in 1..Len(fs) : \A j \in (i + 1)..Len(fs) :
                  Called(fs[j]) =>
                      Called(fs[i]) /\ FirstCall(fs[i]) <= FirstCall(fs[j])
            /\ \A d \in Failed :
                  /\ last.out = Returns(d)
                  /\ \A i \in (FirstCall(d) + 1)..Len(log) :
                        log[i][1] = "call" => log[i][2] < d

\* the second of two different children failed after the first succeeded
C18_Witness ==
    /\ last.op = "evaluate"
    /\ last.node = 3
    /\ Len(nodes[3].formulae) = 2
    /\ nodes[3].formulae[1] # nodes[3].formulae[2]
    /\ Called(nodes[3].formulae[1])
    /\ ~IsError(Returns(nodes[3].formulae[1]))
    /\ nodes[3].formulae[2] \in Failed

-----------------------------------------------------------------------------
(* the correction table of MultCorr and AddCorr *)

\* evaluate of a MultCorr or AddCorr was called, its own checks passed and
\* its child evaluates to a series
CorrCalled ==
    /\ last.op = "evaluate"
    /\ nodes[last.node].kind \in {"MultCorr", "AddCorr"}
    /\ ~IsError(Formula_evaluate(nodes[last.node], tabs))
    /\ Returns(nodes[last.node].formulae[1]).tag = "series"

\* C19 as stated: with no correction table, or without the configured column
\* in it, evaluate of MultCorr and AddCorr fails with SchemaKind, as that of
\* Indicator, FInflate and FDeflate does, and returns no series.
C19_Original ==
    (CorrCalled /\ MissingCorrection(last.node)) =>
        IsError(last.out) /\ Exc(last.out) \in SchemaKinds

====
